---- MODULE Spec2Model ----
(***************************************************************************)
(* Guest-filesystem adapter (DiskArchive / DiskFile / DiskDirectory) over  *)
(* a host filesystem.                                                      *)
(*                                                                         *)
(* Strings are sequences of one-character strings, so that concatenation,  *)
(* the leading '.' of a hidden name and path separators are computed.      *)
(* A host path string is resolved by the host to a canonical path: the     *)
(* sequence of its component names.  The host filesystem is a function     *)
(* from the canonical paths that exist to their nodes.                     *)
(***************************************************************************)
EXTENDS Integers, Sequences, FiniteSets, TLC

VARIABLES
    fs,        \* host filesystem: canonical path -> [dir, data]
    file,      \* the DiskFile the caller holds (or none)
    directory, \* the DiskDirectory the caller holds (or none)
    last,      \* the last call: operation, arguments, result, returned value
    created,   \* the path and size of the last successful CreateFile, while no call
               \* has changed the filesystem since, and whether OpenFile opened it since
    listed,    \* since the cursor was opened: the names DiskDirectory::Read returned,
               \* and the names of the children and of the directories among them then
    registered, \* the archives registered with the FS service, in the order of the calls
    loggers    \* the level of each logger of the logging backend, by name

vars == <<fs, file, directory, last, created, listed, registered, loggers>>

----------------------------------------------------------------------------
(* Bounds of the model *)

MaxSize == 2     \* largest size given to CreateFile and SetSize
MaxOffset == 1   \* largest offset given to Read and Write
MaxLen == 2      \* largest length given to Read and Write
MaxCount == 2    \* largest count given to DiskDirectory::Read
MaxLoads == 2    \* most archives registered by LoadFile
MaxPath == 5     \* longest path given to TrimSourcePath
MaxWords == 3    \* most words a filter given to ParseFilter is made of

----------------------------------------------------------------------------
(* Result codes *)

RESULT_SUCCESS ==
    [description |-> "Success", module |-> "Common", summary |-> "Success", level |-> "Success"]
FS_NotAFile ==
    [description |-> "FS_NotAFile", module |-> "FS", summary |-> "Canceled", level |-> "Status"]
FS_NotFound ==
    [description |-> "FS_NotFound", module |-> "FS", summary |-> "NotFound", level |-> "Status"]
FS_AlreadyExists ==
    [description |-> "FS_AlreadyExists", module |-> "FS", summary |-> "NothingHappened", level |-> "Status"]
FS_InvalidOpenFlags ==
    [description |-> "FS_InvalidOpenFlags", module |-> "FS", summary |-> "Canceled", level |-> "Status"]
TooLarge ==
    [description |-> "TooLarge", module |-> "FS", summary |-> "OutOfResource", level |-> "Info"]

IsError(result) == result # RESULT_SUCCESS

Modes == [read_flag : BOOLEAN, write_flag : BOOLEAN, create_flag : BOOLEAN]

----------------------------------------------------------------------------
(* Host path resolution *)

RECURSIVE SplitAt(_, _, _)
\* the components of string s between separators; cur is the component being read
SplitAt(s, i, cur) ==
    IF i > Len(s) THEN (IF cur = <<>> THEN <<>> ELSE <<cur>>)
    ELSE IF s[i] = "/"
         THEN (IF cur = <<>> THEN <<>> ELSE <<cur>>) \o SplitAt(s, i + 1, <<>>)
         ELSE SplitAt(s, i + 1, Append(cur, s[i]))

RECURSIVE Normalize(_, _)
\* the host's lexical resolution of "." and ".." components
Normalize(comps, acc) ==
    IF comps = <<>> THEN acc
    ELSE IF Head(comps) = <<".">> THEN Normalize(Tail(comps), acc)
    ELSE IF Head(comps) = <<".", ".">>
         THEN Normalize(Tail(comps), IF acc = <<>> THEN acc ELSE SubSeq(acc, 1, Len(acc) - 1))
         ELSE Normalize(Tail(comps), Append(acc, Head(comps)))

\* the archive's host directory
mount_point == <<"/", "m">>

\* guest paths given to the archive
PathA == <<"/", "a">>
PathD == <<"/", "d">>
PathDA == <<"/", "d", "/", "a">>
PathDH == <<"/", "d", "/", ".", "h">>
PathUp == <<"/", ".", ".", "/", "a">>
PathDots == <<"/", ".", ".">>
GuestPaths == {PathA, PathD, PathDA, PathDH, PathUp, PathDots}

\* the canonical path of every host path string the archive can form
Resolved == [s \in {mount_point \o p : p \in GuestPaths} |-> Normalize(SplitAt(s, 1, <<>>), <<>>)]

Canon(s) == Resolved[s]

Parent(c) == SubSeq(c, 1, Len(c) - 1)

IsPrefix(p, c) == Len(p) <= Len(c) /\ SubSeq(c, 1, Len(p)) = p

----------------------------------------------------------------------------
(* The host filesystem, FileUtil *)

\* what the host can answer to a call that makes a file
HostOutcomes == {"ok", "open fails", "write fails"}

FileNode(data) == [dir |-> FALSE, data |-> data]
DirNode == [dir |-> TRUE, data |-> <<>>]

Exists(f, path) == Canon(path) \in DOMAIN f

IsDirectory(f, path) == Exists(f, path) /\ f[Canon(path)].dir

IsFile(f, path) == Exists(f, path) /\ ~f[Canon(path)].dir

\* a new entry can be made at c: its parent is a directory and c is not the root
CanMake(f, c) == c # <<>> /\ Parent(c) \in DOMAIN f /\ f[Parent(c)].dir

Put(f, c, node) == [x \in DOMAIN f \cup {c} |-> IF x = c THEN node ELSE f[x]]

Remove(f, c) == [x \in DOMAIN f \ {c} |-> f[x]]

Zeros(n) == [i \in 1..n |-> 0]

\* FileUtil::CreateEmptyFile: fopen(path, "wb") and close; hostOk is the host's outcome
CreateEmptyFile(f, path, hostOk) ==
    LET c == Canon(path)
    IN  IF hostOk /\ CanMake(f, c) /\ ~IsDirectory(f, path)
        THEN Put(f, c, FileNode(<<>>))
        ELSE f

\* FileUtil::Delete: unlink; TRUE when the file is gone afterwards
DeleteOk(f, path, hostOk) == ~Exists(f, path) \/ (IsFile(f, path) /\ hostOk)

Delete(f, path, hostOk) ==
    IF IsFile(f, path) /\ hostOk THEN Remove(f, Canon(path)) ELSE f

\* bytes of a file after b is written at offset: a gap is filled with zeros
WriteAt(data, offset, b) ==
    LET n == IF Len(data) > offset + Len(b) THEN Len(data) ELSE offset + Len(b)
    IN  [i \in 1..n |->
            IF i > offset /\ i <= offset + Len(b) THEN b[i - offset]
            ELSE IF i <= Len(data) THEN data[i] ELSE 0]

\* bytes read at offset: fewer than length at end of file
ReadAt(data, offset, length) ==
    IF offset >= Len(data) THEN <<>>
    ELSE SubSeq(data, offset + 1,
                IF offset + length <= Len(data) THEN offset + length ELSE Len(data))

\* ftruncate: cut, or extend with zeros
ResizeTo(data, size) == [i \in 1..size |-> IF i <= Len(data) THEN data[i] ELSE 0]

\* FileUtil::IOFile(path, mode_string) with "rb", "r+b" or "b": opens an existing
\* regular file, hostOk being the host's outcome then. The mode string "b" names
\* no access: what the host library makes of it is one of the outcomes of hostOk.
IOFileOpens(f, path, mode_string, hostOk) ==
    mode_string \in {"rb", "r+b", "b"} /\ hostOk /\ IsFile(f, path)

\* FileUtil::IOFile(path, "wb"): creates the file or truncates it
IOFileCreate(f, path, hostOk) ==
    LET c == Canon(path)
    IN  IF hostOk /\ ~IsDirectory(f, path) /\ (Exists(f, path) \/ CanMake(f, c))
        THEN Put(f, c, FileNode(<<>>))
        ELSE f

\* FileUtil::Rename: rename(2). A file replaces a file, a directory moves with
\* its subtree onto an absent path or an empty directory.
HasChildren(f, c) == \E x \in DOMAIN f : x # c /\ IsPrefix(c, x)

RenameOk(f, src, dst, hostOk) ==
    LET s == Canon(src)
        d == Canon(dst)
    IN  /\ hostOk
        /\ s \in DOMAIN f /\ s # <<>> /\ d # <<>>
        /\ CanMake(f, d)
        /\ ~(s # d /\ IsPrefix(s, d))
        /\ (d \in DOMAIN f => /\ f[d].dir = f[s].dir
                              /\ ~(f[d].dir /\ s # d /\ HasChildren(f, d)))

Rekey(x, s, d) == d \o SubSeq(x, Len(s) + 1, Len(x))

Rename(f, src, dst, hostOk) ==
    LET s == Canon(src)
        d == Canon(dst)
        moved == {x \in DOMAIN f : IsPrefix(s, x)}
        kept == (DOMAIN f \ moved) \ {d}
    IN  IF ~RenameOk(f, src, dst, hostOk) \/ s = d THEN f
        ELSE [y \in kept \cup {Rekey(x, s, d) : x \in moved} |->
                IF y \in kept THEN f[y]
                ELSE f[CHOOSE x \in moved : Rekey(x, s, d) = y]]

\* FileUtil::CreateDir: mkdir; TRUE also when the directory is already there
CreateDirOk(f, path, hostOk) ==
    IsDirectory(f, path) \/ (hostOk /\ ~Exists(f, path) /\ CanMake(f, Canon(path)))

CreateDir(f, path, hostOk) ==
    IF ~Exists(f, path) /\ CreateDirOk(f, path, hostOk)
    THEN Put(f, Canon(path), DirNode)
    ELSE f

\* FileUtil::DeleteDir: rmdir of an empty directory
DeleteDirOk(f, path, hostOk) ==
    hostOk /\ IsDirectory(f, path) /\ Canon(path) # <<>> /\ ~HasChildren(f, Canon(path))

DeleteDir(f, path, hostOk) ==
    IF DeleteDirOk(f, path, hostOk) THEN Remove(f, Canon(path)) ELSE f

----------------------------------------------------------------------------
(* DiskArchive and DiskFile *)

NoMode == [read_flag |-> FALSE, write_flag |-> FALSE, create_flag |-> FALSE]

\* no DiskFile is held
NoFile ==
    [st |-> "none", path |-> <<>>, mode |-> NoMode, node |-> <<>>,
     access |-> "", orphan |-> FALSE, odata |-> <<>>]

RECURSIVE Join(_)
\* the path string of a sequence of components
Join(comps) == IF comps = <<>> THEN <<>> ELSE <<"/">> \o Head(comps) \o Join(Tail(comps))

\* DiskFile::DiskFile that rids the guest path of its ".." segments first
DiskFile_Normalized(path, mode) ==
    [NoFile EXCEPT !.path = mount_point \o Join(Normalize(SplitAt(path, 1, <<>>), <<>>)),
                   !.mode = mode]

\* DiskFile::DiskFile: the host path is the mount point followed by the guest path
DiskFile(path, mode) == [NoFile EXCEPT !.path = mount_point \o path, !.mode = mode]

\* the mode string DiskFile::Open gives the host
ModeString(mode) ==
    IF mode.write_flag THEN "r+b" ELSE IF mode.read_flag THEN "rb" ELSE "b"

\* Open without the test of the create flag: a missing file is always created
Open_CreatesWithoutFlag(f, path, mode, openOk) ==
    LET early(result, logs) ==
            [result |-> result, fs |-> f, logs |-> logs, made |-> FALSE, tried |-> FALSE]
        f1 == IF ~Exists(f, path) THEN CreateEmptyFile(f, path, TRUE) ELSE f
    IN  IF IsDirectory(f, path) THEN early(FS_NotAFile, 0)
        ELSE IF mode.create_flag /\ ~mode.read_flag /\ ~mode.write_flag
        THEN early(FS_InvalidOpenFlags, 0)
        ELSE [result |-> IF IOFileOpens(f1, path, ModeString(mode), openOk) THEN RESULT_SUCCESS ELSE FS_NotFound,
              fs |-> f1, logs |-> 0, made |-> ~Exists(f, path), tried |-> TRUE]

\* Open without the test for the create flag alone
Open_NoFlagsCheck(f, path, mode, openOk) ==
    LET early(result, logs) ==
            [result |-> result, fs |-> f, logs |-> logs, made |-> FALSE, tried |-> FALSE]
        f1 == IF ~Exists(f, path) THEN CreateEmptyFile(f, path, TRUE) ELSE f
    IN  IF IsDirectory(f, path) THEN early(FS_NotAFile, 0)
        ELSE IF ~Exists(f, path) /\ ~mode.create_flag THEN early(FS_NotFound, 1)
        ELSE [result |-> IF IOFileOpens(f1, path, ModeString(mode), openOk) THEN RESULT_SUCCESS ELSE FS_NotFound,
              fs |-> f1, logs |-> 0, made |-> ~Exists(f, path), tried |-> TRUE]

\* Open that logs an error on a directory as it does on a missing file
Open_LogsNotAFile(f, path, mode, openOk) ==
    LET early(result, logs) ==
            [result |-> result, fs |-> f, logs |-> logs, made |-> FALSE, tried |-> FALSE]
        f1 == IF ~Exists(f, path) THEN CreateEmptyFile(f, path, TRUE) ELSE f
    IN  IF IsDirectory(f, path) THEN early(FS_NotAFile, 1)
        ELSE IF mode.create_flag /\ ~mode.read_flag /\ ~mode.write_flag
        THEN early(FS_InvalidOpenFlags, 0)
        ELSE IF ~Exists(f, path) /\ ~mode.create_flag THEN early(FS_NotFound, 1)
        ELSE [result |-> IF IOFileOpens(f1, path, ModeString(mode), openOk) THEN RESULT_SUCCESS ELSE FS_NotFound,
              fs |-> f1, logs |-> 0, made |-> ~Exists(f, path), tried |-> TRUE]

\* Open that opens for writing the way CreateFile does, emptying the file
Open_Truncates(f, path, mode, openOk) ==
    LET early(result, logs) ==
            [result |-> result, fs |-> f, logs |-> logs, made |-> FALSE, tried |-> FALSE]
        f1 == IF ~Exists(f, path) THEN CreateEmptyFile(f, path, TRUE) ELSE f
        f2 == IF mode.write_flag THEN IOFileCreate(f1, path, openOk) ELSE f1
    IN  IF IsDirectory(f, path) THEN early(FS_NotAFile, 0)
        ELSE IF mode.create_flag /\ ~mode.read_flag /\ ~mode.write_flag
        THEN early(FS_InvalidOpenFlags, 0)
        ELSE IF ~Exists(f, path) /\ ~mode.create_flag THEN early(FS_NotFound, 1)
        ELSE [result |-> IF IOFileOpens(f2, path, ModeString(mode), openOk) THEN RESULT_SUCCESS ELSE FS_NotFound,
              fs |-> f2, logs |-> 0, made |-> ~Exists(f, path), tried |-> TRUE]

\* DiskFile::Open on host filesystem f: the result, the filesystem afterwards,
\* the messages logged, whether CreateEmptyFile was called (made) and whether
\* the host open was attempted (tried). openOk is the host's outcome of opening
\* a file that is there.
Open(f, path, mode, openOk) ==
    LET early(result, logs) ==
            [result |-> result, fs |-> f, logs |-> logs, made |-> FALSE, tried |-> FALSE]
        f1 == IF ~Exists(f, path) THEN CreateEmptyFile(f, path, TRUE) ELSE f
    IN  IF IsDirectory(f, path) THEN early(FS_NotAFile, 0)
        ELSE IF mode.create_flag /\ ~mode.read_flag /\ ~mode.write_flag
        THEN early(FS_InvalidOpenFlags, 0)
        ELSE IF ~Exists(f, path) /\ ~mode.create_flag THEN early(FS_NotFound, 1)
        ELSE [result |-> IF IOFileOpens(f1, path, ModeString(mode), openOk) THEN RESULT_SUCCESS ELSE FS_NotFound,
              fs |-> f1, logs |-> 0, made |-> ~Exists(f, path), tried |-> TRUE]

\* the bytes of the host file an open DiskFile refers to
FileData(f, h) == IF h.orphan THEN h.odata ELSE f[h.node].data

\* the held DiskFile after the host unlinked c: an open file lives on without a name
Unlinked(h, f, c) ==
    IF h.st = "open" /\ ~h.orphan /\ h.node = c
    THEN [h EXCEPT !.orphan = TRUE, !.odata = f[c].data, !.node = <<>>]
    ELSE h

\* the held DiskFile after the host renamed s to d
Moved(h, f, s, d) ==
    IF h.st # "open" \/ h.orphan \/ s = d THEN h
    ELSE IF IsPrefix(s, h.node) THEN [h EXCEPT !.node = Rekey(h.node, s, d)]
    ELSE Unlinked(h, f, d)

\* the record of a call: the operation, its arguments, what the resolved path
\* held before it (was), the host's outcome where it was asked for (host: no
\* host call of this call failed), and what the call returned
Call(op) ==
    [op |-> op, path |-> <<>>, path2 |-> <<>>, mode |-> NoMode, size |-> 0, offset |-> 0,
     length |-> 0, flush |-> FALSE, buffer |-> <<>>, was |-> "absent", host |-> TRUE,
     result |-> RESULT_SUCCESS, ret |-> TRUE, val |-> 0, bytes |-> <<>>, logs |-> 0]

Kind(f, path) ==
    IF IsDirectory(f, path) THEN "dir" ELSE IF Exists(f, path) THEN "file" ELSE "absent"

None == [path |-> <<>>, size |-> 0, valid |-> FALSE, host |-> TRUE, opened |-> FALSE]

\* the bytes a caller passes to Write: n distinct non-zero bytes, 0x41, 0x42, ...
Buffer(n) == [i \in 1..n |-> 64 + i]

\* DiskArchive::OpenFile(path, mode). On success the caller holds the new DiskFile
\* (and lets go of the one it held); on failure the new DiskFile is destroyed.
OpenFile(path, mode, openOk) ==
    LET new == DiskFile(path, mode)
        o == Open(fs, new.path, new.mode, openOk)
    IN  /\ fs' = o.fs
        /\ file' = IF IsError(o.result) THEN file
                   ELSE [new EXCEPT !.st = "open", !.node = Canon(new.path),
                                    !.access = ModeString(new.mode)]
        /\ last' = [Call("OpenFile") EXCEPT !.path = path, !.mode = mode,
                        !.was = Kind(fs, new.path), !.host = (o.tried => openOk),
                        !.result = o.result, !.logs = 1 + o.logs]
        /\ created' = IF ~created.valid THEN created
                      ELSE IF o.fs # fs THEN None
                      ELSE [created EXCEPT !.opened = (~IsError(o.result) /\ path = created.path)
                                                      \/ (IsError(o.result) /\ @)]
        /\ UNCHANGED <<loggers, registered, directory, listed>>

\* DeleteFile that reports success without asking the host to delete
DeleteFileOn_NoDelete(f, path, hostOk) ==
    LET file_path == mount_point \o path
    IN  IF IsDirectory(f, file_path)
        THEN [result |-> FS_NotAFile, fs |-> f, reached |-> FALSE]
        ELSE IF ~Exists(f, file_path)
        THEN [result |-> FS_NotFound, fs |-> f, reached |-> FALSE]
        ELSE [result |-> IF hostOk THEN RESULT_SUCCESS ELSE FS_NotAFile,
              fs |-> f, reached |-> TRUE]

\* DiskArchive::DeleteFile on host filesystem f: the result, the filesystem
\* afterwards and whether the host was asked to delete (reached)
DeleteFileOn(f, path, hostOk) ==
    LET file_path == mount_point \o path
    IN  IF IsDirectory(f, file_path)
        THEN [result |-> FS_NotAFile, fs |-> f, reached |-> FALSE]
        ELSE IF ~Exists(f, file_path)
        THEN [result |-> FS_NotFound, fs |-> f, reached |-> FALSE]
        ELSE [result |-> IF DeleteOk(f, file_path, hostOk) THEN RESULT_SUCCESS ELSE FS_NotAFile,
              fs |-> Delete(f, file_path, hostOk), reached |-> TRUE]

\* DiskArchive::DeleteFile(path)
DeleteFile(path, hostOk) ==
    LET file_path == mount_point \o path
        d == DeleteFileOn(fs, path, hostOk)
    IN  /\ fs' = d.fs
        /\ file' = IF Exists(fs, file_path) /\ ~Exists(d.fs, file_path)
                   THEN Unlinked(file, fs, Canon(file_path)) ELSE file
        /\ last' = [Call("DeleteFile") EXCEPT !.path = path, !.was = Kind(fs, file_path),
                        !.host = (d.reached => hostOk), !.result = d.result]
        /\ created' = None
        /\ UNCHANGED <<loggers, registered, directory, listed>>

\* CreateFile without the test for an existing file
CreateFileOn_NoExistsCheck(f, path, size, host) ==
    LET full_path == mount_point \o path
        opened == IOFileCreate(f, full_path, host # "open fails")
        isOpen == host # "open fails" /\ IsFile(opened, full_path)
    IN  IF IsDirectory(f, full_path)
        THEN [result |-> FS_NotAFile, fs |-> f, reached |-> FALSE]
        ELSE IF size = 0
        THEN [result |-> RESULT_SUCCESS,
              fs |-> IOFileCreate(f, full_path, host # "open fails"), reached |-> TRUE]
        ELSE IF isOpen /\ host = "ok"
        THEN [result |-> RESULT_SUCCESS,
              fs |-> Put(opened, Canon(full_path), FileNode(WriteAt(<<>>, size - 1, Zeros(1)))),
              reached |-> TRUE]
        ELSE [result |-> TooLarge, fs |-> opened, reached |-> TRUE]

\* DiskArchive::CreateFile on host filesystem f. host is the host's outcome: it
\* opens the new file or not, and then seeks to size - 1 and writes the one
\* byte or not. The result, the filesystem afterwards and whether the host was
\* asked to make the file (reached).
CreateFileOn(f, path, size, host) ==
    LET full_path == mount_point \o path
        opened == IOFileCreate(f, full_path, host # "open fails")
        isOpen == host # "open fails" /\ IsFile(opened, full_path)
    IN  IF IsDirectory(f, full_path)
        THEN [result |-> FS_NotAFile, fs |-> f, reached |-> FALSE]
        ELSE IF Exists(f, full_path)
        THEN [result |-> FS_AlreadyExists, fs |-> f, reached |-> FALSE]
        ELSE IF size = 0
        THEN [result |-> RESULT_SUCCESS,
              fs |-> CreateEmptyFile(f, full_path, host # "open fails"), reached |-> TRUE]
        ELSE IF isOpen /\ host = "ok"
        THEN [result |-> RESULT_SUCCESS,
              fs |-> Put(opened, Canon(full_path), FileNode(WriteAt(<<>>, size - 1, Zeros(1)))),
              reached |-> TRUE]
        ELSE [result |-> TooLarge, fs |-> opened, reached |-> TRUE]

\* DiskArchive::CreateFile(path, size); an outcome the call does not ask the
\* host for is given as "ok"
CreateFile(path, size, host) ==
    LET full_path == mount_point \o path
        c == CreateFileOn(fs, path, size, host)
    IN  /\ (~c.reached => host = "ok") /\ (size = 0 => host # "write fails")
        /\ fs' = c.fs
        /\ last' = [Call("CreateFile") EXCEPT !.path = path, !.size = size,
                        !.was = Kind(fs, full_path), !.host = (host = "ok"),
                        !.result = c.result]
        /\ created' = IF IsError(c.result) THEN None
                      ELSE [path |-> path, size |-> size, valid |-> TRUE,
                            host |-> (host = "ok"), opened |-> FALSE]
        /\ UNCHANGED <<loggers, registered, file, directory, listed>>

\* DiskArchive::RenameFile(src_path, dest_path)
RenameFile(src_path, dest_path, hostOk) ==
    LET src == mount_point \o src_path
        dst == mount_point \o dest_path
        ok == RenameOk(fs, src, dst, hostOk)
    IN  /\ fs' = Rename(fs, src, dst, hostOk)
        /\ file' = IF ok THEN Moved(file, fs, Canon(src), Canon(dst)) ELSE file
        /\ last' = [Call("RenameFile") EXCEPT !.path = src_path, !.path2 = dest_path,
                        !.was = Kind(fs, src), !.host = hostOk, !.ret = ok]
        /\ created' = None
        /\ UNCHANGED <<loggers, registered, directory, listed>>

\* DiskArchive::RenameDirectory(src_path, dest_path)
RenameDirectory(src_path, dest_path, hostOk) ==
    LET src == mount_point \o src_path
        dst == mount_point \o dest_path
        ok == RenameOk(fs, src, dst, hostOk)
    IN  /\ fs' = Rename(fs, src, dst, hostOk)
        /\ file' = IF ok THEN Moved(file, fs, Canon(src), Canon(dst)) ELSE file
        /\ last' = [Call("RenameDirectory") EXCEPT !.path = src_path, !.path2 = dest_path,
                        !.was = Kind(fs, src), !.host = hostOk, !.ret = ok]
        /\ created' = None
        /\ UNCHANGED <<loggers, registered, directory, listed>>

\* DiskArchive::CreateDirectory(path)
CreateDirectory(path, hostOk) ==
    LET full == mount_point \o path
    IN  /\ fs' = CreateDir(fs, full, hostOk)
        /\ last' = [Call("CreateDirectory") EXCEPT !.path = path, !.was = Kind(fs, full),
                        !.host = hostOk, !.ret = CreateDirOk(fs, full, hostOk)]
        /\ created' = None
        /\ UNCHANGED <<loggers, registered, file, directory, listed>>

\* DiskArchive::DeleteDirectory(path)
DeleteDirectory(path, hostOk) ==
    LET full == mount_point \o path
    IN  /\ fs' = DeleteDir(fs, full, hostOk)
        /\ last' = [Call("DeleteDirectory") EXCEPT !.path = path, !.was = Kind(fs, full),
                        !.host = hostOk, !.ret = DeleteDirOk(fs, full, hostOk)]
        /\ created' = None
        /\ UNCHANGED <<loggers, registered, file, directory, listed>>

\* the host filesystem after the bytes of the held DiskFile's host file become data
Store(f, h, data) == IF h.orphan THEN f ELSE [f EXCEPT ![h.node].data = data]

\* Read that does not seek: the bytes come from the start of the file
ReadOn_NoSeek(f, h, offset, length) ==
    IF ~h.mode.read_flag /\ ~h.mode.write_flag
    THEN [result |-> FS_InvalidOpenFlags, bytes |-> <<>>]
    ELSE [result |-> RESULT_SUCCESS, bytes |-> ReadAt(FileData(f, h), 0, length)]

\* Read that asks for the read flag
ReadOn_NeedsReadFlag(f, h, offset, length) ==
    IF ~h.mode.read_flag
    THEN [result |-> FS_InvalidOpenFlags, bytes |-> <<>>]
    ELSE [result |-> RESULT_SUCCESS, bytes |-> ReadAt(FileData(f, h), offset, length)]

\* Read that takes fewer bytes than asked for as a failure
ReadOn_ShortReadFails(f, h, offset, length) ==
    IF ~h.mode.read_flag /\ ~h.mode.write_flag
    THEN [result |-> FS_InvalidOpenFlags, bytes |-> <<>>]
    ELSE IF Len(ReadAt(FileData(f, h), offset, length)) < length
    THEN [result |-> FS_NotFound, bytes |-> <<>>]
    ELSE [result |-> RESULT_SUCCESS, bytes |-> ReadAt(FileData(f, h), offset, length)]

\* DiskFile::Read on DiskFile h over host filesystem f: the result and the bytes
\* put in the buffer
ReadOn(f, h, offset, length) ==
    IF ~h.mode.read_flag /\ ~h.mode.write_flag
    THEN [result |-> FS_InvalidOpenFlags, bytes |-> <<>>]
    ELSE [result |-> RESULT_SUCCESS, bytes |-> ReadAt(FileData(f, h), offset, length)]

\* DiskFile::Read(offset, length, buffer) on the open DiskFile
Read(offset, length) ==
    LET r == ReadOn(fs, file, offset, length)
    IN  /\ file.st = "open"
        /\ last' = [Call("Read") EXCEPT !.offset = offset, !.length = length,
                        !.mode = file.mode, !.was = "file",
                        !.result = r.result, !.val = Len(r.bytes), !.bytes = r.bytes]
        /\ UNCHANGED <<loggers, registered, fs, file, directory, created, listed>>

\* DiskFile::Write on DiskFile h: the result, the count and the bytes of the
\* host file afterwards. written is the count the host reports: the first
\* `written` bytes of the buffer are stored.
WriteOn(f, h, offset, buffer, written) ==
    IF ~h.mode.write_flag
    THEN [result |-> FS_InvalidOpenFlags, val |-> 0, data |-> FileData(f, h)]
    ELSE [result |-> RESULT_SUCCESS, val |-> written,
          data |-> IF written = 0 THEN FileData(f, h)
                   ELSE WriteAt(FileData(f, h), offset, SubSeq(buffer, 1, written))]

\* DiskFile::Write(offset, length, flush, buffer) on the open DiskFile.
\* Reads go through the same host stream as writes, so what Flush() forces out
\* of the stream's buffer is seen by the DiskFile with or without it.
Write(offset, length, flush, written) ==
    LET w == WriteOn(fs, file, offset, Buffer(length), written)
    IN  /\ file.st = "open"
        /\ written <= length
        /\ (IsError(w.result) => written = length)
        /\ fs' = Store(fs, file, w.data)
        /\ file' = [file EXCEPT !.odata = IF file.orphan THEN w.data ELSE @]
        /\ last' = [Call("Write") EXCEPT !.offset = offset, !.length = length,
                        !.flush = flush, !.buffer = Buffer(length), !.mode = file.mode,
                        !.was = "file", !.host = (written = length),
                        !.result = w.result, !.val = w.val]
        /\ created' = None
        /\ UNCHANGED <<loggers, registered, directory, listed>>

\* DiskFile::GetSize() on the open DiskFile
GetSize ==
    /\ file.st = "open"
    /\ last' = [Call("GetSize") EXCEPT !.mode = file.mode, !.was = "file",
                    !.val = Len(FileData(fs, file))]
    /\ UNCHANGED <<loggers, registered, fs, file, directory, created, listed>>

\* SetSize that returns what the host made of the resize
SetSize_ReportsHost(size) ==
    LET resized == file.access = "r+b"
        data == IF resized THEN ResizeTo(FileData(fs, file), size) ELSE FileData(fs, file)
    IN  /\ file.st = "open"
        /\ fs' = Store(fs, file, data)
        /\ file' = [file EXCEPT !.odata = IF file.orphan THEN data ELSE @]
        /\ last' = [Call("SetSize") EXCEPT !.size = size, !.mode = file.mode,
                        !.was = "file", !.host = resized, !.ret = resized]
        /\ created' = None
        /\ UNCHANGED <<loggers, registered, directory, listed>>

\* DiskFile::SetSize(size) on the open DiskFile: the host resizes a file whose
\* stream can write, and its answer is discarded
SetSize(size) ==
    LET resized == file.access = "r+b"
        data == IF resized THEN ResizeTo(FileData(fs, file), size) ELSE FileData(fs, file)
    IN  /\ file.st = "open"
        /\ fs' = Store(fs, file, data)
        /\ file' = [file EXCEPT !.odata = IF file.orphan THEN data ELSE @]
        /\ last' = [Call("SetSize") EXCEPT !.size = size, !.mode = file.mode,
                        !.was = "file", !.host = resized, !.ret = TRUE]
        /\ created' = None
        /\ UNCHANGED <<loggers, registered, directory, listed>>

\* DiskFile::Close() on the open DiskFile
Close ==
    /\ file.st = "open"
    /\ file' = [NoFile EXCEPT !.st = "closed", !.path = file.path, !.mode = file.mode]
    /\ last' = [Call("Close") EXCEPT !.mode = file.mode, !.was = "file", !.ret = TRUE]
    /\ UNCHANGED <<loggers, registered, fs, directory, created, listed>>

\* DiskFile::Open() called on the DiskFile the caller holds, open or closed: a
\* new host stream takes the place of the old one, which is closed. When the
\* call returns before the host open the DiskFile is as it was.
OpenHeld(openOk) ==
    LET o == Open(fs, file.path, file.mode, openOk)
    IN  /\ file.st \in {"open", "closed"}
        /\ fs' = o.fs
        /\ file' = IF ~o.tried THEN file
                   ELSE IF IsError(o.result)
                   THEN [NoFile EXCEPT !.st = "closed", !.path = file.path, !.mode = file.mode]
                   ELSE [NoFile EXCEPT !.st = "open", !.path = file.path, !.mode = file.mode,
                                       !.node = Canon(file.path),
                                       !.access = ModeString(file.mode)]
        /\ last' = [Call("Open") EXCEPT !.mode = file.mode, !.was = Kind(fs, file.path),
                        !.host = (o.tried => openOk), !.result = o.result, !.logs = o.logs]
        /\ created' = None
        /\ UNCHANGED <<loggers, registered, directory, listed>>

----------------------------------------------------------------------------
(* DiskDirectory *)

\* the terminator of a string, and the width of an Entry's filename buffer
NUL == "NUL"
FILENAME_LENGTH == 3

\* no DiskDirectory is held
NoDirectory == [st |-> "none", path |-> <<>>, children |-> <<>>, size |-> 0, it |-> 0]

\* DiskDirectory::DiskDirectory
DiskDirectory(path) == [NoDirectory EXCEPT !.path = mount_point \o path]

\* the canonical paths of the immediate children of directory c
Children(f, c) == {x \in DOMAIN f : Len(x) = Len(c) + 1 /\ IsPrefix(c, x)}

\* the number of entries below c, all levels
TreeSize(f, c) == Cardinality({x \in DOMAIN f : x # c /\ IsPrefix(c, x)})

\* the orders in which the host can enumerate the set S
Orders(S) ==
    {o \in [1..Cardinality(S) -> S] : \A i, j \in 1..Cardinality(S) : o[i] = o[j] => i = j}

\* FileUtil::ScanDirectoryTree: the immediate children in the host's order, each
\* with its name, its kind and its size (a directory's size is its entry count)
FSTEntry(f, x) ==
    [virtualName |-> x[Len(x)], isDirectory |-> f[x].dir,
     size |-> IF f[x].dir THEN TreeSize(f, x) ELSE Len(f[x].data)]

ScanDirectoryTree(f, path, order) == [i \in 1..Len(order) |-> FSTEntry(f, order[i])]

\* std::string::operator[]: the character at j (from 0), the terminator at the end
CharAt(str, j) == IF j < Len(str) THEN str[j + 1] ELSE NUL

RECURSIVE CopyName(_, _, _)
\* the copy loop of DiskDirectory::Read from position j on: buf afterwards
CopyName(buf, filename, j) ==
    IF j >= FILENAME_LENGTH THEN buf
    ELSE LET b == [buf EXCEPT ![j + 1] = CharAt(filename, j)]
         IN  IF CharAt(filename, j) = NUL THEN b ELSE CopyName(b, filename, j + 1)

\* Entry with the archive bit of a directory set as well
Entry_ArchiveSet(child, slot) ==
    [filename |-> CopyName(slot, child.virtualName, 0),
     is_directory |-> child.isDirectory,
     is_hidden |-> CharAt(child.virtualName, 0) = ".",
     is_read_only |-> FALSE,
     file_size |-> child.size,
     is_archive |-> TRUE]

\* the Entry DiskDirectory::Read makes of a child, in a slot that held `slot`
Entry(child, slot) ==
    [filename |-> CopyName(slot, child.virtualName, 0),
     is_directory |-> child.isDirectory,
     is_hidden |-> CharAt(child.virtualName, 0) = ".",
     is_read_only |-> FALSE,
     file_size |-> child.size,
     is_archive |-> ~child.isDirectory]

RECURSIVE ReadEntries_IteratorKept(_, _, _, _, _)
\* the loop without the step of the iterator
ReadEntries_IteratorKept(d, count, entries_read, out, slot) ==
    IF entries_read < count /\ d.it # Len(d.children)
    THEN LET child == d.children[d.it + 1]
         IN  ReadEntries_IteratorKept(d, count, entries_read + 1,
                         [entries |-> Append(out.entries, Entry(child, slot)),
                          names |-> Append(out.names, child.virtualName)], slot)
    ELSE [entries_read |-> entries_read, entries |-> out.entries, names |-> out.names,
          directory |-> d]

RECURSIVE ReadEntries_SkipsDeleted(_, _, _, _, _)
\* the loop looking at the host again: a child that is no longer there is stepped over
ReadEntries_SkipsDeleted(d, count, entries_read, out, slot) ==
    IF entries_read < count /\ d.it # Len(d.children)
    THEN LET child == d.children[d.it + 1]
             there == Append(Canon(d.path), child.virtualName) \in DOMAIN fs
         IN  IF there
             THEN ReadEntries_SkipsDeleted([d EXCEPT !.it = @ + 1], count, entries_read + 1,
                         [entries |-> Append(out.entries, Entry(child, slot)),
                          names |-> Append(out.names, child.virtualName)], slot)
             ELSE ReadEntries_SkipsDeleted([d EXCEPT !.it = @ + 1], count, entries_read,
                                           out, slot)
    ELSE [entries_read |-> entries_read, entries |-> out.entries, names |-> out.names,
          directory |-> d]

RECURSIVE ReadEntries(_, _, _, _, _)
\* the loop of DiskDirectory::Read: the entries filled, the name of the child
\* each was made of (filename, in the loop) and the DiskDirectory afterwards
ReadEntries(d, count, entries_read, out, slot) ==
    IF entries_read < count /\ d.it # Len(d.children)
    THEN LET child == d.children[d.it + 1]
         IN  ReadEntries([d EXCEPT !.it = @ + 1], count, entries_read + 1,
                         [entries |-> Append(out.entries, Entry(child, slot)),
                          names |-> Append(out.names, child.virtualName)], slot)
    ELSE [entries_read |-> entries_read, entries |-> out.entries, names |-> out.names,
          directory |-> d]

\* DiskArchive::OpenDirectory(path); order is the host's enumeration order
OpenDirectory(path, order) ==
    LET new == DiskDirectory(path)
        isDir == IsDirectory(fs, new.path)
        children == ScanDirectoryTree(fs, new.path, order)
    IN  /\ order \in Orders(Children(fs, Canon(new.path)))
        /\ directory' = IF ~isDir THEN directory
                        ELSE [new EXCEPT !.st = "open", !.children = children,
                                         !.size = TreeSize(fs, Canon(new.path)), !.it = 0]
        /\ listed' = IF ~isDir THEN listed
                     ELSE [entries |-> <<>>,
                           children |-> {x[Len(x)] : x \in Children(fs, Canon(new.path))},
                           dirs |-> {x[Len(x)] : x \in {y \in Children(fs, Canon(new.path)) : fs[y].dir}}]
        /\ last' = [Call("OpenDirectory") EXCEPT !.path = path, !.was = Kind(fs, new.path),
                        !.ret = isDir, !.logs = 1]
        /\ UNCHANGED <<loggers, registered, fs, file, created>>

\* DiskDirectory::Read(count, entries) on the open DiskDirectory; every slot of
\* the caller's array holds fill in each character of its filename before the call
DirectoryRead(count, fill) ==
    LET slot == [j \in 1..FILENAME_LENGTH |-> fill]
        r == ReadEntries(directory, count, 0, [entries |-> <<>>, names |-> <<>>], slot)
    IN  /\ directory.st = "open"
        /\ directory' = r.directory
        /\ listed' = [listed EXCEPT !.entries = @ \o r.names]
        /\ last' = [Call("DirectoryRead") EXCEPT !.size = count, !.offset = directory.it,
                        !.buffer = slot, !.was = "dir", !.val = r.entries_read,
                        !.bytes = r.entries, !.logs = r.entries_read]
        /\ UNCHANGED <<loggers, registered, fs, file, created>>

----------------------------------------------------------------------------
(* The loader *)

FileTypes == {"Error", "Unknown", "CCI", "CXI", "CIA", "ELF", "THREEDSX"}

ResultStatuses ==
    {"Success", "Error", "ErrorInvalidFormat", "ErrorNotImplemented", "ErrorNotLoaded",
     "ErrorNotUsed", "ErrorAlreadyLoaded", "ErrorMemoryAllocationFailed"}

\* IdentifyFile: the first loader whose IdentifyType knows the file decides;
\* ids holds what each IdentifyType answers
IdentifyFile(ids) ==
    IF ids.threedsx # "Error" THEN ids.threedsx
    ELSE IF ids.elf # "Error" THEN ids.elf
    ELSE IF ids.ncch # "Error" THEN ids.ncch
    ELSE "Unknown"

UpperCase ==
    <<"A", "B", "C", "D", "E", "F", "G", "I", "L", "M", "N", "O", "R", "S", "T", "U", "V", "W", "X", "Y">>
LowerCase ==
    <<"a", "b", "c", "d", "e", "f", "g", "i", "l", "m", "n", "o", "r", "s", "t", "u", "v", "w", "x", "y">>

\* Common::ToLower
ToLower(str) ==
    [i \in 1..Len(str) |->
        IF \E k \in 1..Len(UpperCase) : UpperCase[k] = str[i]
        THEN LowerCase[CHOOSE k \in 1..Len(UpperCase) : UpperCase[k] = str[i]]
        ELSE str[i]]

\* Common::SplitPath, the extension: from the last '.' of the file name on
LastIndex(str, ch) ==
    IF \E i \in 1..Len(str) : str[i] = ch
    THEN CHOOSE i \in 1..Len(str) : str[i] = ch /\ \A j \in (i + 1)..Len(str) : str[j] # ch
    ELSE 0

SplitPathExtension(full_path) ==
    LET dir_end == LastIndex(full_path, "/")
        fname_end == LastIndex(full_path, ".")
    IN  IF fname_end = 0 \/ fname_end < dir_end THEN <<>>
        ELSE SubSeq(full_path, fname_end, Len(full_path))

\* GuessFromExtension
GuessFromExtension(extension_) ==
    LET extension == ToLower(extension_)
    IN  IF extension = <<".", "e", "l", "f">> \/ extension = <<".", "a", "x", "f">> THEN "ELF"
        ELSE IF extension = <<".", "c", "c", "i">> \/ extension = <<".", "3", "d", "s">> THEN "CCI"
        ELSE IF extension = <<".", "c", "x", "i">> THEN "CXI"
        ELSE IF extension = <<".", "3", "d", "s", "x">> THEN "THREEDSX"
        ELSE "Unknown"

\* the file names given to LoadFile
FileNames ==
    {<<"a", ".", "e", "l", "f">>, <<"a", ".", "A", "X", "F">>, <<"a", ".", "c", "c", "i">>,
     <<"a", ".", "3", "d", "s">>, <<"a", ".", "C", "x", "i">>, <<"a", ".", "3", "d", "s", "x">>,
     <<"a", ".", "c", "i", "a">>, <<"d", ".", "d", "/", "a">>, <<"a">>}

\* the type guessed from the extension of each file name given to LoadFile
Guessed == [filename \in FileNames |-> GuessFromExtension(SplitPathExtension(filename))]

\* SplitPath and GuessFromExtension as LoadFile uses them on its file name
FilenameType(filename) == Guessed[filename]

\* GetLoader with the case of CCI missing
GetLoader_NoCCI(type) ==
    IF type = "THREEDSX" THEN "AppLoader_THREEDSX"
    ELSE IF type = "ELF" THEN "AppLoader_ELF"
    ELSE IF type = "CXI" THEN "AppLoader_NCCH"
    ELSE "nullptr"

\* GetLoader: the loader made for the type, or none
GetLoader(type) ==
    IF type = "THREEDSX" THEN "AppLoader_THREEDSX"
    ELSE IF type = "ELF" THEN "AppLoader_ELF"
    ELSE IF type \in {"CXI", "CCI"} THEN "AppLoader_NCCH"
    ELSE "nullptr"

\* the archive LoadFile registers: a RomFS factory over the loader, under the
\* RomFS id code
RomFS(app_loader) ==
    [factory |-> "ArchiveFactory_RomFS", app_loader |-> app_loader, id_code |-> "RomFS"]

\* LoadFile that registers the archive whatever Load() answered
LoadFileOn_RegistersAlways(filename, openOk, ids, load) ==
    LET identified == IdentifyFile(ids)
        filename_type == FilenameType(filename)
        type == IF identified # filename_type /\ identified = "Unknown"
                THEN filename_type ELSE identified
        logs == (IF identified # filename_type THEN 1 ELSE 0) + 1
        app_loader == GetLoader(type)
        done(result, register, loaded, n) ==
            [result |-> result, register |-> register, loaded |-> loaded, logs |-> n,
             type |-> type, app_loader |-> app_loader]
    IN  IF ~openOk THEN [done("Error", <<>>, FALSE, 1) EXCEPT !.type = "Unknown",
                                                              !.app_loader = "nullptr"]
        ELSE IF type \in {"THREEDSX", "CXI", "CCI"}
        THEN done(load, <<RomFS(app_loader)>>, TRUE, logs)
        ELSE IF type = "ELF" THEN done(load, <<>>, TRUE, logs)
        ELSE IF type = "CIA" THEN done("ErrorNotImplemented", <<>>, FALSE, logs)
        ELSE done("ErrorInvalidFormat", <<>>, FALSE, logs + 1)

\* LoadFile: the status returned, the archives it registers, whether it called
\* Load() on the loader, the messages logged, the type it settled on and the
\* loader GetLoader gave. openOk is the host's outcome of opening the file, ids
\* what the IdentifyType of each loader answers, load what Load() answers.
LoadFileOn(filename, openOk, ids, load) ==
    LET identified == IdentifyFile(ids)
        filename_type == FilenameType(filename)
        type == IF identified # filename_type /\ identified = "Unknown"
                THEN filename_type ELSE identified
        logs == (IF identified # filename_type THEN 1 ELSE 0) + 1
        app_loader == GetLoader(type)
        done(result, register, loaded, n) ==
            [result |-> result, register |-> register, loaded |-> loaded, logs |-> n,
             type |-> type, app_loader |-> app_loader]
    IN  IF ~openOk THEN [done("Error", <<>>, FALSE, 1) EXCEPT !.type = "Unknown",
                                                              !.app_loader = "nullptr"]
        ELSE IF type \in {"THREEDSX", "CXI", "CCI"}
        THEN done(load, IF load = "Success" THEN <<RomFS(app_loader)>> ELSE <<>>, TRUE, logs)
        ELSE IF type = "ELF" THEN done(load, <<>>, TRUE, logs)
        ELSE IF type = "CIA" THEN done("ErrorNotImplemented", <<>>, FALSE, logs)
        ELSE done("ErrorInvalidFormat", <<>>, FALSE, logs + 1)

\* LoadFile(filename); an outcome the call does not ask for is given as the
\* first of its kind. Service::FS::RegisterArchiveType adds to the registered.
LoadFile(filename, openOk, ids, load) ==
    LET l == LoadFileOn(filename, openOk, ids, load)
    IN  /\ Len(registered) < MaxLoads
        /\ ~l.loaded => load = "Success"
        /\ ~openOk => ids = [threedsx |-> "Error", elf |-> "Error", ncch |-> "Error"]
        /\ registered' = registered \o l.register
        /\ last' = [op |-> "LoadFile", filename |-> filename, opened |-> openOk,
                    ids |-> ids, type |-> l.type,
                    app_loader |-> l.app_loader, loaded |-> l.loaded,
                    result |-> l.result, logs |-> l.logs]
        /\ UNCHANGED <<fs, file, directory, created, listed, loggers>>

----------------------------------------------------------------------------
(* Logging: TrimSourcePath *)

RECURSIVE ComparePartialString(_, _, _, _, _)
\* Common::ComparePartialString(begin, end, other): the characters of str from
\* begin to end are those of other, and both finish together
ComparePartialString(str, begin, end, other, k) ==
    IF begin # end /\ CharAt(other, k) # NUL
    THEN IF CharAt(str, begin) # CharAt(other, k) THEN FALSE
         ELSE ComparePartialString(str, begin + 1, end, other, k + 1)
    ELSE (begin = end) = (CharAt(other, k) = NUL)

RECURSIVE NextSlash_NoBackslash(_, _)
\* the inner loop stopping at '/' alone
NextSlash_NoBackslash(path, next_slash) ==
    IF CharAt(path, next_slash) # NUL /\ CharAt(path, next_slash) # "/"
    THEN NextSlash_NoBackslash(path, next_slash + 1)
    ELSE next_slash

RECURSIVE NextSlash(_, _)
\* the inner loop of TrimSourcePath: the position of the next '/' or '\', or
\* of the terminator
NextSlash(path, next_slash) ==
    IF /\ CharAt(path, next_slash) # NUL
       /\ CharAt(path, next_slash) # "/" /\ CharAt(path, next_slash) # "\\"
    THEN NextSlash(path, next_slash + 1)
    ELSE next_slash

RECURSIVE TrimLoop(_, _, _, _)
\* the outer loop of TrimSourcePath, p and start being the positions p and
\* path point at
TrimLoop(path, root, p, start) ==
    IF CharAt(path, p) # NUL
    THEN LET next_slash == NextSlash(path, p)
             is_src == ComparePartialString(path, p, next_slash, root, 0)
             p1 == IF CharAt(path, next_slash) # NUL THEN next_slash + 1 ELSE next_slash
         IN  TrimLoop(path, root, p1, IF is_src THEN p1 ELSE start)
    ELSE start

\* TrimSourcePath(path, root): the position in path of the pointer returned
TrimSourcePath(path, root) == TrimLoop(path, root, 0, 0)

\* the string a pointer to position p of str points at
StringAt(str, p) == SubSeq(str, p + 1, Len(str))

----------------------------------------------------------------------------
(* Logging: the filter *)

\* names of loggers Log::Initialize creates: a top-level logger with a
\* sub-logger, and two top-level loggers
Service == <<"S", "e", "r", "v", "i", "c", "e">>
Service_FS == Service \o <<".", "F", "S">>
Loader == <<"L", "o", "a", "d", "e", "r">>
Log == <<"L", "o", "g">>

LoggerNames == {Service, Service_FS, Loader, Log}

\* Log::Initialize: the loggers, each at the level a new logger has
Initialize == [name \in LoggerNames |-> "info"]

\* StringToLogLevel
StringToLogLevel(level) ==
    LET lower_level == ToLower(level)
    IN  IF lower_level = <<"t", "r", "a", "c", "e">> THEN "trace"
        ELSE IF lower_level = <<"d", "e", "b", "u", "g">> THEN "debug"
        ELSE IF lower_level = <<"i", "n", "f", "o">> THEN "info"
        ELSE IF lower_level = <<"n", "o", "t", "i", "c", "e">> THEN "notice"
        ELSE IF lower_level = <<"w", "a", "r", "n", "i", "n", "g">> THEN "warn"
        ELSE IF lower_level = <<"e", "r", "r", "o", "r">> THEN "err"
        ELSE IF lower_level = <<"c", "r", "i", "t", "i", "c", "a", "l">> THEN "critical"
        ELSE IF lower_level = <<"a", "l", "e", "r", "t">> THEN "alert"
        ELSE IF lower_level = <<"e", "m", "e", "r", "g", "e", "n", "c", "y">> THEN "emerg"
        ELSE "off"

RECURSIVE GetLines(_, _, _, _)
\* the loop of SplitString from position i (from 1) on, token being the
\* characters std::getline has read since the last delimiter: the tokens that
\* are not empty
GetLines(str, delimeter, i, token) ==
    IF i > Len(str) THEN (IF token = <<>> THEN <<>> ELSE <<token>>)
    ELSE IF str[i] = delimeter
         THEN (IF token = <<>> THEN <<>> ELSE <<token>>) \o GetLines(str, delimeter, i + 1, <<>>)
         ELSE GetLines(str, delimeter, i + 1, Append(token, str[i]))

\* SplitString: the tokens, or the string itself when there is none
SplitString(str, delimeter) ==
    LET tokens == GetLines(str, delimeter, 1, <<>>)
    IN  IF tokens = <<>> THEN <<str>> ELSE tokens

RECURSIVE ParseFilterPairs(_)
\* ParseFilterPairs: a (name, level) pair for every entry with a ':' in it
ParseFilterPairs(filter_entries) ==
    IF filter_entries = <<>> THEN <<>>
    ELSE LET entry == Head(filter_entries)
             pos == LastIndex(entry, ":")
             log_name == SubSeq(entry, 1, pos - 1)
             log_level == SubSeq(entry, pos + 1, Len(entry))
         IN  (IF pos = 0 THEN <<>> ELSE <<<<log_name, StringToLogLevel(log_level)>>>>)
                \o ParseFilterPairs(Tail(filter_entries))

\* the test of FindLogByString: a logger without '.' in its name is found by
\* its name, another by the characters of its name before the last '.'
FindLogByString(logger_name, name) ==
    LET length == LastIndex(logger_name, ".") - 1
    IN  IF length < 0 THEN logger_name = name
        ELSE IF length > Len(name) THEN FALSE
        ELSE SubSeq(name, 1, length) = SubSeq(logger_name, 1, length)

\* FindRelatedLoggers: the loggers the name finds
FindRelatedLoggers(lg, name) == {n \in DOMAIN lg : FindLogByString(n, name)}

RECURSIVE SetLevels(_, _)
\* the loop of ParseFilter over the pairs: the loggers afterwards
SetLevels(lg, token_pairs) ==
    IF token_pairs = <<>> THEN lg
    ELSE LET pair == Head(token_pairs)
             found_loggers == FindRelatedLoggers(lg, pair[1])
         IN  SetLevels([n \in DOMAIN lg |-> IF n \in found_loggers THEN pair[2] ELSE lg[n]],
                       Tail(token_pairs))

\* spdlog::set_level: every logger takes the level
SetLevel(lg, level) == [n \in DOMAIN lg |-> level]

\* what reading the first element of an empty vector, and erasing it, can come
\* to: the program stops, or the read gives something that is "*" or is not,
\* with some level, and the erase stops the program or does not
Undefined ==
    [read : {"stops", "star", "other"}, level : {"trace", "off"}, erase : {"stops", "returns"}]

\* ParseFilter(filter) on the loggers lg: the entries, the pairs, the position
\* of the pair it reads, whether it returns, and the loggers afterwards.
\* ub is the outcome of the read and of the erase when the pairs are none.
ParseFilterOn(lg, filter, ub) ==
    LET split_elements == SplitString(filter, " ")
        token_pairs == ParseFilterPairs(split_elements)
        done(returns, l) ==
            [split_elements |-> split_elements, token_pairs |-> token_pairs, read |-> 0,
             returns |-> returns, loggers |-> l]
    IN  IF token_pairs = <<>>
        THEN IF ub.read = "stops" THEN done(FALSE, lg)
             ELSE IF ub.read = "other" THEN done(TRUE, lg)
             ELSE done(ub.erase = "returns", SetLevel(lg, ub.level))
        ELSE IF token_pairs[1][1] = <<"*">>
        THEN done(TRUE, SetLevels(SetLevel(lg, token_pairs[1][2]), Tail(token_pairs)))
        ELSE done(TRUE, SetLevels(lg, token_pairs))

----------------------------------------------------------------------------
(* The specifications *)

\* the mounted directory exists and is empty; nothing is held
Init ==
    /\ fs = (<<>> :> DirNode) @@ (<<<<"m">>>> :> DirNode)
    /\ file = NoFile
    /\ directory = NoDirectory
    /\ last = Call("Init")
    /\ created = None
    /\ listed = [entries |-> <<>>, children |-> {}, dirs |-> {}]
    /\ registered = <<>>
    /\ loggers = Initialize

\* The archive's file operations: files are created, opened and deleted at a
\* path in the mount root, at a path that can become a directory, and below it.
FilePaths == {PathD, PathDA}

NextOpenFile ==
    \E path \in FilePaths, mode \in Modes, openOk \in BOOLEAN : OpenFile(path, mode, openOk)

NextCreateFile ==
    \E path \in FilePaths, size \in 0..MaxSize, host \in HostOutcomes :
        CreateFile(path, size, host)

NextDeleteFile == \E path \in FilePaths, hostOk \in BOOLEAN : DeleteFile(path, hostOk)

NextCreateDirectory == \E hostOk \in BOOLEAN : CreateDirectory(PathD, hostOk)

NextDeleteDirectory == \E hostOk \in BOOLEAN : DeleteDirectory(PathD, hostOk)

Next ==
    \/ NextOpenFile
    \/ NextCreateFile
    \/ NextDeleteFile
    \/ NextCreateDirectory
    \/ NextDeleteDirectory
    \/ GetSize

Spec == Init /\ [][Next]_vars

\* One file and the DiskFile opened on it: reads, writes, resizing, closing,
\* and the file deleted or created under the open DiskFile.
NextIO ==
    \/ \E mode \in Modes, openOk \in BOOLEAN : OpenFile(PathA, mode, openOk)
    \/ \E hostOk \in BOOLEAN : DeleteFile(PathA, hostOk)
    \/ \E offset \in 0..MaxOffset, length \in 0..MaxLen : Read(offset, length)
    \/ \E offset \in 0..MaxOffset, length \in 0..MaxLen, flush \in BOOLEAN :
        \E written \in 0..length : Write(offset, length, flush, written)
    \/ GetSize
    \/ \E size \in 0..MaxSize : SetSize(size)
    \/ Close

SpecIO == Init /\ [][NextIO]_vars

\* A directory, its children and the DiskDirectory opened on it, with the
\* archive's operations changing the directory under the open cursor.
DirPaths == {PathD, PathDA}
ChildPaths == {PathDA, PathDH}

NextDir ==
    \/ \E path \in DirPaths :
        \E order \in Orders(Children(fs, Canon(mount_point \o path))) :
            OpenDirectory(path, order)
    \/ \E count \in 0..MaxCount, fill \in {NUL, "?"} : DirectoryRead(count, fill)
    \/ \E path \in ChildPaths, size \in 0..1 : CreateFile(path, size, "ok")
    \/ \E path \in ChildPaths : DeleteFile(path, TRUE)
    \/ \E path \in DirPaths : CreateDirectory(path, TRUE)
    \/ \E path \in DirPaths : DeleteDirectory(path, TRUE)
    \/ \E src \in ChildPaths, dst \in ChildPaths : RenameFile(src, dst, TRUE)
    \/ \E src \in DirPaths, dst \in DirPaths : RenameDirectory(src, dst, TRUE)

SpecDir == Init /\ [][NextDir]_vars

\* The life of one DiskFile: made and opened by the archive, read and written,
\* closed, and its Open() called again, with the file deleted in between.
NextHandle ==
    \/ \E mode \in Modes, openOk \in BOOLEAN : OpenFile(PathA, mode, openOk)
    \/ \E openOk \in BOOLEAN : OpenHeld(openOk)
    \/ \E offset \in 0..MaxOffset, length \in 0..MaxLen : Read(offset, length)
    \/ \E offset \in 0..MaxOffset, length \in 1..MaxLen : Write(offset, length, FALSE, length)
    \/ GetSize
    \/ Close
    \/ DeleteFile(PathA, TRUE)

SpecHandle == Init /\ [][NextHandle]_vars

\* The loader: files by name and by what the loaders make of their contents.
\* What the IdentifyType of the three loaders answer: Error, the types of the
\* loader, and types that are not its own, so that IdentifyFile finds every
\* type it can return
Identifications ==
    [threedsx : {"Error", "THREEDSX", "CIA"}, elf : {"Error", "ELF", "Unknown"},
     ncch : {"Error", "CCI", "CXI"}]

LoadOutcomes == {"Success", "Error", "ErrorInvalidFormat"}

NextLoad ==
    \E filename \in FileNames, openOk \in BOOLEAN, ids \in Identifications,
       load \in LoadOutcomes : LoadFile(filename, openOk, ids, load)

SpecLoad == Init /\ [][NextLoad]_vars

\* TrimSourcePath on the paths over a small alphabet, with roots of one and two
\* characters
PathChars == {"s", "x", "/", "\\"}

SourcePaths == UNION {[1..n -> PathChars] : n \in 0..MaxPath}

Roots == {<<"s">>, <<"s", "s">>, <<"x">>}

\* the path is the caller's; nothing of the archive is in use
InitTrim ==
    /\ fs = (<<>> :> DirNode) @@ (<<<<"m">>>> :> DirNode)
    /\ file = NoFile
    /\ directory = NoDirectory
    /\ last \in {[op |-> "Init", path |-> path] : path \in SourcePaths}
    /\ created = None
    /\ listed = [entries |-> <<>>, children |-> {}, dirs |-> {}]
    /\ registered = <<>>
    /\ loggers = Initialize

\* TrimSourcePath(path, root) on the caller's path: the position returned and
\* the string there
Trim(root) ==
    /\ last' = [op |-> "TrimSourcePath", path |-> last.path, root |-> root,
                val |-> TrimSourcePath(last.path, root),
                ret |-> StringAt(last.path, TrimSourcePath(last.path, root))]
    /\ UNCHANGED <<fs, file, directory, created, listed, registered, loggers>>

NextTrim == \E root \in Roots : Trim(root)

SpecTrim == InitTrim /\ [][NextTrim]_vars

\* ParseFilter at startup, on the filters made of a few words and on one
\* with two entries
Words ==
    {<<"*">>, <<":">>, <<" ">>, Log, Service, <<"i", "n", "f", "o">>,
     <<"T", "r", "a", "c", "e">>}

RECURSIVE Concat(_)
Concat(words) == IF words = <<>> THEN <<>> ELSE Head(words) \o Concat(Tail(words))

Filters ==
    {Concat(words) : words \in UNION {[1..n -> Words] : n \in 0..MaxWords}}
        \cup {Concat(<<<<"*">>, <<":">>, <<"T", "r", "a", "c", "e">>, <<" ">>,
                       Service, <<":">>, <<"x">>>>)}

\* the loggers are initialized and the filter is the configuration's
InitFilter ==
    /\ fs = (<<>> :> DirNode) @@ (<<<<"m">>>> :> DirNode)
    /\ file = NoFile
    /\ directory = NoDirectory
    /\ last \in {[op |-> "Init", filter |-> filter] : filter \in Filters}
    /\ created = None
    /\ listed = [entries |-> <<>>, children |-> {}, dirs |-> {}]
    /\ registered = <<>>
    /\ loggers = Initialize

\* Log::ParseFilter(filter) on the configuration's filter; an outcome the call
\* does not come to is given as the first of its kind
ParseFilter(ub) ==
    LET r == ParseFilterOn(loggers, last.filter, ub)
    IN  /\ last.op = "Init"
        /\ r.token_pairs # <<>> => ub = [read |-> "stops", level |-> "trace", erase |-> "stops"]
        /\ ub.read # "star" => (ub.level = "trace" /\ ub.erase = "stops")
        /\ loggers' = r.loggers
        /\ last' = [op |-> "ParseFilter", filter |-> last.filter,
                    split_elements |-> r.split_elements, token_pairs |-> r.token_pairs,
                    read |-> r.read, returns |-> r.returns]
        /\ UNCHANGED <<fs, file, directory, created, listed, registered>>

NextFilter == \E ub \in Undefined : ParseFilter(ub)

SpecFilter == InitFilter /\ [][NextFilter]_vars

\* Guest paths with and without a parent-directory segment given to the
\* operations of the archive
EscapePaths == {PathA, PathUp}

NextEscape ==
    \/ \E path \in EscapePaths, write_flag \in BOOLEAN, create_flag \in BOOLEAN :
        OpenFile(path, [read_flag |-> TRUE, write_flag |-> write_flag,
                        create_flag |-> create_flag], TRUE)
    \/ \E path \in EscapePaths, size \in 0..1 : CreateFile(path, size, "ok")
    \/ \E path \in EscapePaths : DeleteFile(path, TRUE)
    \/ \E path \in {PathUp, PathDots} :
        \E order \in Orders(Children(fs, Canon(mount_point \o path))) :
            OpenDirectory(path, order)

SpecEscape == Init /\ [][NextEscape]_vars

----------------------------------------------------------------------------
(* Claims *)

ReadOnly == [read_flag |-> TRUE, write_flag |-> FALSE, create_flag |-> FALSE]
WriteOnly == [read_flag |-> FALSE, write_flag |-> TRUE, create_flag |-> FALSE]
CreateOnly == [read_flag |-> FALSE, write_flag |-> FALSE, create_flag |-> TRUE]

\* C1: OpenFile on a path that is not on the backing store, with a mode whose
\* create flag is unset, fails with NotFound.
C1_OpenAbsentWithoutCreate ==
    (last.op = "OpenFile" /\ last.was = "absent" /\ ~last.mode.create_flag)
        => last.result = FS_NotFound

\* an absent path was opened for reading and writing and the call failed NotFound
C1_Witness ==
    /\ last.op = "OpenFile" /\ last.was = "absent"
    /\ last.mode.read_flag /\ last.mode.write_flag /\ ~last.mode.create_flag
    /\ last.result = FS_NotFound

\* C2 as stated: with create set and read and write unset, OpenFile fails with
\* InvalidOpenFlags whatever the path holds.
C2_CreateOnlyAlwaysInvalidFlags ==
    (last.op = "OpenFile" /\ last.mode = CreateOnly) => last.result = FS_InvalidOpenFlags

\* C2 amended: with create set and read and write unset, OpenFile fails with
\* InvalidOpenFlags when the path is absent or holds a file, and with NotAFile
\* when it holds a directory.
C2_CreateOnlyInvalidFlagsUnlessDirectory ==
    (last.op = "OpenFile" /\ last.mode = CreateOnly)
        => last.result = IF last.was = "dir" THEN FS_NotAFile ELSE FS_InvalidOpenFlags

\* an existing file was opened with create alone and the call failed InvalidOpenFlags
C2_Witness ==
    /\ last.op = "OpenFile" /\ last.mode = CreateOnly /\ last.was = "file"
    /\ last.result = FS_InvalidOpenFlags

\* C3 as stated, on a host none of whose calls fails: after CreateFile(p, N)
\* returned success, OpenFile(p, read) succeeds and GetSize() on the DiskFile it
\* gives returns N.
C3_CreateThenOpenThenSize ==
    /\ (/\ last.op = "OpenFile" /\ last.mode = ReadOnly /\ last.host
        /\ created.valid /\ created.host /\ last.path = created.path)
            => last.result = RESULT_SUCCESS
    /\ (last.op = "GetSize" /\ created.valid /\ created.host /\ created.opened)
            => last.val = created.size

\* C4 as stated: DeleteFile fails NotAFile on a directory, NotFound on an absent
\* path, and in every other case removes the file.
C4_DeleteAlwaysRemoves ==
    last.op = "DeleteFile" =>
        /\ last.was = "dir" => last.result = FS_NotAFile
        /\ last.was = "absent" => last.result = FS_NotFound
        /\ last.was = "file" => /\ last.result = RESULT_SUCCESS
                                /\ ~Exists(fs, mount_point \o last.path)

\* C4 amended: DeleteFile fails NotAFile on a directory and NotFound on an absent
\* path; on a file it removes it, so that it no longer exists, unless the host's
\* delete call fails: then it fails NotAFile and the file stays.
C4_DeleteRemovesUnlessHostFails ==
    last.op = "DeleteFile" =>
        /\ last.was = "dir" => last.result = FS_NotAFile /\ IsDirectory(fs, mount_point \o last.path)
        /\ last.was = "absent" => last.result = FS_NotFound
        /\ (last.was = "file" /\ last.host) =>
                /\ last.result = RESULT_SUCCESS
                /\ ~Exists(fs, mount_point \o last.path)
        /\ (last.was = "file" /\ ~last.host) =>
                /\ last.result = FS_NotAFile
                /\ IsFile(fs, mount_point \o last.path)

\* a file was deleted and is no longer there
C4_Witness ==
    /\ last.op = "DeleteFile" /\ last.was = "file" /\ last.result = RESULT_SUCCESS
    /\ ~Exists(fs, mount_point \o last.path)

\* C5: a Write on the open DiskFile that reports all its bytes written,
\* followed by a Read of as many bytes at the same offset, gives back the bytes
\* written, with or without flush.
C5_WriteReadRoundTrip ==
    [][(/\ last.op = "Write" /\ last.result = RESULT_SUCCESS /\ last.val = last.length
        /\ last'.op = "Read" /\ last'.offset = last.offset /\ last'.length = last.length)
            => (last'.result = RESULT_SUCCESS /\ last'.bytes = last.buffer)]_vars

\* a Read at the largest offset returned the whole buffer a Write put there
C5_Witness ==
    /\ last.op = "Read" /\ last.offset = MaxOffset /\ last.length = MaxLen
    /\ last.result = RESULT_SUCCESS /\ last.bytes = Buffer(MaxLen)

Min(a, b) == IF a < b THEN a ELSE b

NoRepeat(seq) == \A i, j \in 1..Len(seq) : seq[i] = seq[j] => i = j

\* C6: on the cursor opened over a directory with k children, every Read(count)
\* returns min(count, remaining) entries, the entries returned so far are the
\* first children of the snapshot, in its order and each once, and once all k
\* were returned a Read returns none.
C6_ListingExhaustive ==
    /\ directory.st = "open" =>
        /\ Len(listed.entries) <= Cardinality(listed.children)
        /\ NoRepeat(listed.entries)
        /\ \A i \in 1..Len(listed.entries) :
                /\ listed.entries[i] \in listed.children
                /\ listed.entries[i] = directory.children[i].virtualName
        /\ {directory.children[i].virtualName : i \in 1..Len(directory.children)}
                = listed.children
    /\ last.op = "DirectoryRead" =>
        /\ last.val = Len(last.bytes)
        /\ last.val = Min(last.size,
                          Cardinality(listed.children) - (Len(listed.entries) - last.val))

\* both children of a directory were returned and a further Read(count > 0) returned none
C6_Witness ==
    /\ last.op = "DirectoryRead" /\ last.size > 0 /\ last.val = 0
    /\ Cardinality(listed.children) = 2 /\ Len(listed.entries) = 2

\* C7: every entry DiskDirectory::Read produces has is_hidden set iff the
\* child's name begins with '.', is_archive set iff the child is not a
\* directory, and is_read_only unset.
C7_EntryAttributes ==
    last.op = "DirectoryRead" =>
        \A i \in 1..Len(last.bytes) :
            LET entry == last.bytes[i]
                name == listed.entries[Len(listed.entries) - Len(last.bytes) + i]
            IN  /\ entry.is_hidden = (Head(name) = ".")
                /\ entry.is_directory = (name \in listed.dirs)
                /\ entry.is_archive = (name \notin listed.dirs)
                /\ entry.is_archive = ~entry.is_directory
                /\ entry.is_read_only = FALSE

\* one Read returned a hidden file, with the archive bit, and a directory, without
C7_Witness ==
    /\ last.op = "DirectoryRead"
    /\ \E i, j \in 1..Len(last.bytes) :
        /\ last.bytes[i].is_hidden /\ last.bytes[i].is_archive /\ ~last.bytes[i].is_directory
        /\ ~last.bytes[j].is_hidden /\ ~last.bytes[j].is_archive /\ last.bytes[j].is_directory

\* C8: CreateFile fails NotAFile on a path that holds a directory and
\* AlreadyExists on a path that holds a file, for every size, and leaves the
\* backing store as it was.
C8_CreateFileKeepsExisting ==
    [][last'.op = "CreateFile" =>
        /\ last'.was = "dir" => (last'.result = FS_NotAFile /\ fs' = fs)
        /\ last'.was = "file" => (last'.result = FS_AlreadyExists /\ fs' = fs)]_vars

\* CreateFile with size 0 failed AlreadyExists on a file that still has its bytes
C8_Witness ==
    /\ last.op = "CreateFile" /\ last.size = 0 /\ last.was = "file"
    /\ last.result = FS_AlreadyExists
    /\ IsFile(fs, mount_point \o last.path)
    /\ Len(fs[Canon(mount_point \o last.path)].data) = MaxSize

\* C9 as stated: an OpenFile that returns an error leaves the backing store as
\* it was.
C9_FailedOpenChangesNothing ==
    [][(last'.op = "OpenFile" /\ IsError(last'.result)) => fs' = fs]_vars

\* C10: Write fails InvalidOpenFlags, and changes nothing, exactly when the
\* DiskFile was opened without write; Read fails InvalidOpenFlags exactly when it
\* was opened with neither read nor write.
C10_ModeGatesIO ==
    [][/\ last'.op = "Write" =>
            /\ last'.result = IF file.mode.write_flag THEN RESULT_SUCCESS ELSE FS_InvalidOpenFlags
            /\ IsError(last'.result) => (fs' = fs /\ file' = file)
       /\ last'.op = "Read" =>
            /\ last'.result = IF file.mode.read_flag \/ file.mode.write_flag
                              THEN RESULT_SUCCESS ELSE FS_InvalidOpenFlags]_vars

\* a DiskFile opened with write alone was read, and bytes came back
C10_Witness ==
    /\ last.op = "Read" /\ file.st = "open" /\ file.mode = WriteOnly
    /\ last.result = RESULT_SUCCESS /\ last.val > 0

\* C11 as stated: a closed DiskFile stays closed, whatever is called on it,
\* its Open() included (OpenFile gives the caller another DiskFile).
C11_ClosedIsTerminal ==
    [][(file.st = "closed" /\ last'.op # "OpenFile") => file'.st = "closed"]_vars

\* the names of the children the host has now in the directory of the open cursor
ChildrenNow == {x[Len(x)] : x \in Children(fs, Canon(directory.path))}

\* C12: whatever CreateFile, DeleteFile, CreateDirectory, DeleteDirectory and
\* the renames did since the cursor was opened, they leave its snapshot alone,
\* every entry a Read returns is a child the directory had when it was opened,
\* and a Read that returns fewer entries than asked for has returned all of
\* them, those deleted since included.
C12_SnapshotImmutable ==
    [][/\ (directory.st = "open" /\ last'.op # "OpenDirectory") =>
            /\ directory'.children = directory.children
            /\ listed'.children = listed.children
       /\ last'.op = "DirectoryRead" =>
            /\ \A i \in 1..Len(listed'.entries) : listed'.entries[i] \in listed.children
            /\ last'.val < last'.size =>
                    {listed'.entries[i] : i \in 1..Len(listed'.entries)} = listed.children]_vars

\* the cursor returned its two children to the end although the directory now
\* holds neither of them
C12_Witness ==
    /\ last.op = "DirectoryRead" /\ last.val > 0 /\ last.val < last.size
    /\ Cardinality(listed.children) = 2
    /\ {listed.entries[i] : i \in 1..Len(listed.entries)} = listed.children
    /\ ChildrenNow \cap listed.children = {}

\* C13 as stated: a LoadFile that returns Success has registered exactly one
\* archive, under the RomFS id code, and a LoadFile that returns anything else
\* has registered none.
C13_SuccessRegistersOne ==
    [][last'.op = "LoadFile" =>
        IF last'.result = "Success"
        THEN /\ Len(registered') = Len(registered) + 1
             /\ registered'[Len(registered')].id_code = "RomFS"
        ELSE registered' = registered]_vars

\* C13 amended: a LoadFile that returns Success for a file it loads as 3DSX,
\* CXI or CCI has registered exactly one archive, under the RomFS id code; a
\* LoadFile that returns Success for an ELF file, or returns anything else, has
\* registered none.
C13_SuccessRegistersOneUnlessELF ==
    [][last'.op = "LoadFile" =>
        IF last'.result = "Success" /\ last'.type # "ELF"
        THEN /\ Len(registered') = Len(registered) + 1
             /\ SubSeq(registered', 1, Len(registered)) = registered
             /\ registered'[Len(registered')].id_code = "RomFS"
             /\ last'.type \in {"THREEDSX", "CXI", "CCI"}
        ELSE registered' = registered]_vars

\* a file with an unknown name, identified as CXI, was loaded and its one
\* archive is registered
C13_Witness ==
    /\ last.op = "LoadFile" /\ last.result = "Success" /\ last.type = "CXI"
    /\ last.filename = <<"a">>
    /\ Len(registered) = 1 /\ registered[1].id_code = "RomFS"
    /\ registered[1].app_loader = "AppLoader_NCCH"

ArchiveCalls == {"OpenFile", "CreateFile", "DeleteFile", "CreateDirectory", "DeleteDirectory"}

\* C14 as stated: a call of an operation of the archive emits at most one
\* message.
C14_AtMostOneMessage == last.op \in ArchiveCalls => last.logs <= 1

\* C14 amended: OpenFile emits its debug message, and one error message more
\* when the path is absent and create is unset; the other operations of the
\* archive emit none. What OpenFile returns is settled by what the path held,
\* the mode and the host's answer, with one message emitted or two.
C14_AtMostTwoMessages ==
    /\ last.op \in ArchiveCalls \ {"OpenFile"} => last.logs = 0
    /\ last.op = "OpenFile" =>
        /\ last.logs = IF last.was = "absent" /\ ~last.mode.create_flag THEN 2 ELSE 1
        /\ last.result =
                IF last.was = "dir" THEN FS_NotAFile
                ELSE IF last.mode = CreateOnly THEN FS_InvalidOpenFlags
                ELSE IF last.was = "absent" /\ ~last.mode.create_flag THEN FS_NotFound
                ELSE IF last.host /\ IsFile(fs, mount_point \o last.path) THEN RESULT_SUCCESS
                ELSE FS_NotFound

\* OpenFile for reading on an absent path failed NotFound and emitted two messages
C14_Witness ==
    /\ last.op = "OpenFile" /\ last.was = "absent" /\ last.mode = ReadOnly
    /\ last.result = FS_NotFound /\ last.logs = 2

\* C15 as stated: the filename of every entry DiskDirectory::Read produces
\* holds the characters of the child's name in its first positions, up to the
\* width of the buffer, and the terminator in every position after them,
\* whatever the caller's array held before.
C15_NameNullPadded ==
    last.op = "DirectoryRead" =>
        \A i \in 1..Len(last.bytes) :
            LET name == listed.entries[Len(listed.entries) - Len(last.bytes) + i]
            IN  \A j \in 1..FILENAME_LENGTH :
                    last.bytes[i].filename[j] = IF j <= Len(name) THEN name[j] ELSE NUL

\* C16: SetSize on an open DiskFile returns true, for every size and every
\* mode; on a DiskFile opened without write it returns true as well and the
\* file is as it was.
C16_SetSizeAlwaysTrue ==
    [][last'.op = "SetSize" =>
        /\ last'.ret = TRUE
        /\ ~file.mode.write_flag => (fs' = fs /\ file' = file)]_vars

\* SetSize returned true on a DiskFile opened for reading whose file has another size
C16_Witness ==
    /\ last.op = "SetSize" /\ last.ret = TRUE
    /\ file.st = "open" /\ file.mode = ReadOnly
    /\ Len(FileData(fs, file)) # last.size

\* the canonical path of the mount point followed by a guest path, worked out
\* from the string
HostEntry(path) == Normalize(SplitAt(mount_point \o path, 1, <<>>), <<>>)

MountRoot == HostEntry(<<>>)

\* C17: the host path of every operation is the mount point followed by the
\* guest path as it is: the DiskFile and the DiskDirectory hold that string,
\* and OpenFile, CreateFile, DeleteFile and OpenDirectory act on the host entry
\* it names. With the guest path "/../a" that entry is outside the mount root,
\* and with "/.." the directory listed is the parent of the mount root.
C17_PathIsConcatenation ==
    /\ (last.op = "OpenFile" /\ ~IsError(last.result)) =>
            /\ file.path = mount_point \o last.path
            /\ file.node = HostEntry(last.path)
            /\ last.path = PathUp => ~IsPrefix(MountRoot, file.node)
    /\ (last.op = "CreateFile" /\ ~IsError(last.result)) =>
            /\ HostEntry(last.path) \in DOMAIN fs
            /\ last.path = PathUp => /\ ~IsPrefix(MountRoot, HostEntry(last.path))
                                     /\ last.was = "absent"
    /\ (last.op = "DeleteFile" /\ ~IsError(last.result)) =>
            /\ HostEntry(last.path) \notin DOMAIN fs
            /\ last.was = "file"
    /\ (last.op = "OpenDirectory" /\ last.ret) =>
            /\ directory.path = mount_point \o last.path
            /\ listed.children = {x[Len(x)] : x \in Children(fs, HostEntry(last.path))}
            /\ last.path = PathDots => MountRoot[Len(MountRoot)] \in listed.children

\* OpenFile("/../a") opened a file that is not under the mount root, made
\* there by CreateFile("/../a", 1)
C17_Witness ==
    /\ last.op = "OpenFile" /\ last.path = PathUp /\ ~IsError(last.result)
    /\ file.st = "open" /\ ~IsPrefix(MountRoot, file.node)
    /\ Len(FileData(fs, file)) = 1
    /\ ~Exists(fs, mount_point \o PathA)

Delimiters == {"/", "\\"}

\* the path components of str, each with the position where it starts (from
\* 0) and the position after its last character
Components(str) ==
    {c \in (0..Len(str)) \X (0..Len(str)) :
        /\ c[1] <= c[2]
        /\ (c[1] = 0 \/ str[c[1]] \in Delimiters)
        /\ \A j \in (c[1] + 1)..c[2] : str[j] \notin Delimiters
        /\ (c[2] = Len(str) \/ str[c[2] + 1] \in Delimiters)}

\* the components of str that are root
Occurrences(str, root) == {c \in Components(str) : SubSeq(str, c[1] + 1, c[2]) = root}

\* C18: TrimSourcePath(path, root) returns a suffix of path: what follows the
\* last component that is root, and the separator after it; the whole path when
\* no component is root.
C18_TrimsThroughLastRoot ==
    last.op = "TrimSourcePath" =>
        LET occ == Occurrences(last.path, last.root)
            c == CHOOSE x \in occ : \A y \in occ : y[1] <= x[1]
        IN  /\ last.val \in 0..Len(last.path)
            /\ last.ret = SubSeq(last.path, last.val + 1, Len(last.path))
            /\ occ = {} => last.ret = last.path
            /\ occ # {} => last.ret = SubSeq(last.path, c[2] + 2, Len(last.path))

\* a path with the root twice, the second time after a backslash, was trimmed
\* to what follows the second
C18_Witness ==
    /\ last.op = "TrimSourcePath" /\ last.root = <<"s">>
    /\ last.path = <<"s", "\\", "s", "/", "x">>
    /\ last.ret = <<"x">>

Max(a, b) == IF a > b THEN a ELSE b

\* C19: Read(offset, length) on a DiskFile opened with read or write, over a
\* file of size S, succeeds and returns min(length, max(S - offset, 0)) bytes,
\* the bytes of the file from offset on, and leaves the file as it was.
C19_ReadStopsAtEndOfFile ==
    [][(last'.op = "Read" /\ (file.mode.read_flag \/ file.mode.write_flag)) =>
        LET data == FileData(fs, file)
            S == Len(data)
        IN  /\ last'.result = RESULT_SUCCESS
            /\ last'.val = Min(last'.length, Max(S - last'.offset, 0))
            /\ Len(last'.bytes) = last'.val
            /\ \A i \in 1..last'.val : last'.bytes[i] = data[last'.offset + i]
            /\ fs' = fs /\ file' = file
            /\ FileData(fs', file') = data]_vars

\* a Read of two bytes at the last byte of a file returned that one byte
C19_Witness ==
    /\ last.op = "Read" /\ last.result = RESULT_SUCCESS
    /\ last.length = 2 /\ last.offset = 1 /\ last.val = 1
    /\ file.st = "open" /\ Len(FileData(fs, file)) = 2
    /\ last.bytes = <<FileData(fs, file)[2]>> /\ last.bytes # <<0>>

\* C20: an OpenFile that succeeds on an absent path had create and read or
\* write set and has made the file there, empty, and nothing else; with these
\* flags it succeeds on every absent path whose directory exists, the host
\* opening the file; GetSize() on the DiskFile it gives returns 0. An OpenFile
\* on a path that holds a file, with any mode, leaves the backing store as it
\* was.
C20_OpenCreatesEmptyKeepsExisting ==
    [][/\ (/\ last'.op = "OpenFile" /\ last'.was = "absent" /\ ~IsError(last'.result)) =>
            LET c == HostEntry(last'.path)
            IN  /\ last'.mode.create_flag /\ (last'.mode.read_flag \/ last'.mode.write_flag)
                /\ c \notin DOMAIN fs
                /\ fs' = Put(fs, c, FileNode(<<>>))
                /\ file'.st = "open" /\ file'.node = c
       /\ (/\ last'.op = "OpenFile" /\ last'.was = "absent" /\ last'.mode.create_flag
           /\ (last'.mode.read_flag \/ last'.mode.write_flag)
           /\ CanMake(fs, HostEntry(last'.path)) /\ last'.host) =>
            /\ ~IsError(last'.result)
            /\ fs'[HostEntry(last'.path)] = FileNode(<<>>)
       /\ (/\ last.op = "OpenFile" /\ last.was = "absent" /\ ~IsError(last.result)
           /\ last'.op = "GetSize") => last'.val = 0
       /\ (last'.op = "OpenFile" /\ last'.was = "file") => fs' = fs]_vars

\* OpenFile with write and create succeeded on a file of the largest size,
\* which still has it
C20_Witness ==
    /\ last.op = "OpenFile" /\ last.was = "file" /\ ~IsError(last.result)
    /\ last.mode.write_flag /\ last.mode.create_flag
    /\ file.st = "open" /\ Len(FileData(fs, file)) = MaxSize

\* C21 as stated: a CreateFile that returns an error leaves on the backing
\* store the files and directories that were there, and no file at its path.
C21_FailedCreateLeavesNothing ==
    [][(last'.op = "CreateFile" /\ IsError(last'.result)) =>
        /\ DOMAIN fs' = DOMAIN fs
        /\ last'.result = TooLarge => ~Exists(fs', mount_point \o last'.path)]_vars

\* C22: whenever LoadFile calls Load() the loader GetLoader gave for the type
\* is not null; the type is the one IdentifyFile found in the contents, or the
\* one guessed from the extension when that is Unknown; and for CIA, Error and
\* Unknown Load() is not called.
C22_NoLoadOnNullLoader ==
    (last.op = "LoadFile" /\ last.opened) =>
        LET identified == IdentifyFile(last.ids)
            guessed == FilenameType(last.filename)
        IN  /\ last.type = IF identified = "Unknown" THEN guessed ELSE identified
            /\ last.loaded => last.app_loader # "nullptr"
            /\ last.loaded = (last.type \in {"THREEDSX", "CXI", "CCI", "ELF"})
            /\ last.type \in {"CIA", "Error", "Unknown"} =>
                    (~last.loaded /\ last.app_loader = "nullptr")

\* a file whose contents no loader knew was loaded as the CCI its name says
C22_Witness ==
    /\ last.op = "LoadFile" /\ last.opened /\ last.loaded
    /\ IdentifyFile(last.ids) = "Unknown"
    /\ last.filename = <<"a", ".", "3", "d", "s">>
    /\ last.type = "CCI" /\ last.app_loader = "AppLoader_NCCH"

\* C23 as stated: ParseFilter reads the first of the pairs only when there is
\* a pair, whatever the filter.
C23_ReadsFirstPairOnlyIfAny ==
    last.op = "ParseFilter" => last.read < Len(last.token_pairs)

====
